---- MODULE Spec2Model ----
(***************************************************************************)
(* conetto: a broadcast script of Speak and Pause clips is rendered,       *)
(* clip by clip, into one sample buffer (src/render.rs, src/main.rs) and   *)
(* the buffer is low-pass filtered, decimated 24 kHz -> 8 kHz and written  *)
(* out (save_audio_file).                                                  *)
(*                                                                         *)
(* Strings are sequences of one-character strings.  The sample buffer      *)
(* Vec<f32> is kept run-length encoded: a sequence of runs [v, n], n > 0   *)
(* consecutive samples of value v, adjacent runs holding different values  *)
(* (one buffer has one encoding, so = on encodings is = on buffers).       *)
(* A sample value is an integer number of 1/Q-ths of full scale.           *)
(***************************************************************************)
EXTENDS Integers, Sequences, FiniteSets, TLC

VARIABLES variant, pc, rendered, todo, samples, requests, pending,
          events, clipStart, calls

vars == <<variant, pc, rendered, todo, samples, requests, pending,
          events, clipStart, calls>>

\* ------------------------------------------------------------------ bounds

\* Longest text (in characters) of the clip rendered under SpecClip.
MaxTextLen == 3

\* Most clips an iterator yields under Spec.
MaxClips == 2

\* Longest buffer (in samples) handed to save_audio_file under SpecSave.
MaxBufLen == 6

\* Most calls of save_audio_file on one buffer.
MaxSaves == 2

\* Resolution of a sample value: v stands for the amplitude v / Q.
Q == 2

\* ------------------------------------------------------- program constants

SamplesPerTick == 24
ChunkSize == 5
PadWidth == 3
SourceRate == 24000
TargetRate == 8000

\* ---------------------------------------------------------------- strings

\* The characters of the texts the model renders, and of the words the
\* phonetic converter spells them with.
TextChars == {"A", "B", " ", "é"}

\* str::as_bytes: the UTF-8 bytes of one character.
Utf8(c) ==
  CASE c = "A" -> <<65>>
    [] c = "B" -> <<66>>
    [] c = " " -> <<32>>
    [] c = "é" -> <<195, 169>>
    [] c = "L" -> <<76>>
    [] c = "F" -> <<70>>
    [] c = "R" -> <<82>>
    [] c = "V" -> <<86>>
    [] c = "O" -> <<79>>
    [] c = "S" -> <<83>>
    [] c = "p" -> <<112>>
    [] c = "a" -> <<97>>
    [] c = "c" -> <<99>>
    [] c = "e" -> <<101>>
    [] c = "s" -> <<115>>
    [] c = "0" -> <<48>>
    [] c = "1" -> <<49>>
    [] c = "2" -> <<50>>
    [] c = "3" -> <<51>>
    [] c = "4" -> <<52>>
    [] c = "5" -> <<53>>
    [] c = "6" -> <<54>>
    [] c = "7" -> <<55>>
    [] c = "8" -> <<56>>
    [] c = "9" -> <<57>>
    [] OTHER -> <<63>>

RECURSIVE AsBytes(_)
AsBytes(text) ==
  IF text = <<>> THEN <<>> ELSE Utf8(Head(text)) \o AsBytes(Tail(text))

\* char::is_whitespace, on the model's characters.
IsWhitespace(c) == c = " "

\* str::split_whitespace: the maximal runs of non-whitespace characters,
\* in order; never an empty word.
RECURSIVE SplitFrom(_, _)
SplitFrom(s, word) ==
  IF s = <<>> THEN (IF word = <<>> THEN <<>> ELSE <<word>>)
  ELSE IF IsWhitespace(Head(s))
       THEN (IF word = <<>> THEN <<>> ELSE <<word>>) \o SplitFrom(Tail(s), <<>>)
       ELSE SplitFrom(Tail(s), Append(word, Head(s)))

\* A splitter that cuts at every single whitespace character (str::split(' ')),
\* which yields empty words around leading, trailing and doubled whitespace.
RECURSIVE SplitEvery(_, _)
SplitEvery(s, word) ==
  IF s = <<>> THEN <<word>>
  ELSE IF IsWhitespace(Head(s))
       THEN <<word>> \o SplitEvery(Tail(s), <<>>)
       ELSE SplitEvery(Tail(s), Append(word, Head(s)))

SplitWhitespaceKeepingEmpty(s) == SplitEvery(s, <<>>)

SplitWhitespace(s) == SplitFrom(s, <<>>)

\* char::to_lowercase, on the model's characters.
LowerChar(c) ==
  CASE c = "A" -> "a"
    [] c = "B" -> "b"
    [] c = "L" -> "l"
    [] c = "F" -> "f"
    [] c = "R" -> "r"
    [] c = "V" -> "v"
    [] c = "O" -> "o"
    [] c = "S" -> "s"
    [] OTHER -> c

SameCase(s) == s

ToLowercase(s) == [i \in 1..Len(s) |-> LowerChar(s[i])]

\* The literal the phonetic loop compares every lowercased word with.
SpaceWord == <<"s", "p", "a", "c", "e">>

\* PhoneticConverter::new(&SpellingAlphabet::Nato).convert, one character:
\* a letter gives its code word, a space the word Space, any other
\* character itself.
CodeWord(c) ==
  CASE c = "A" -> <<"A", "L", "F", "A">>
    [] c = "B" -> <<"B", "R", "A", "V", "O">>
    [] c = " " -> <<"S", "p", "a", "c", "e">>
    [] OTHER -> <<c>>

\* convert: the code words of the characters, joined by single spaces.
RECURSIVE PhoneticConvert(_)
PhoneticConvert(text) ==
  IF text = <<>> THEN <<>>
  ELSE IF Len(text) = 1 THEN CodeWord(text[1])
  ELSE CodeWord(Head(text)) \o <<" ">> \o PhoneticConvert(Tail(text))

\* ------------------------------------------------------------ format!

DigitChar(d) ==
  CASE d = 0 -> "0" [] d = 1 -> "1" [] d = 2 -> "2" [] d = 3 -> "3"
    [] d = 4 -> "4" [] d = 5 -> "5" [] d = 6 -> "6" [] d = 7 -> "7"
    [] d = 8 -> "8" [] d = 9 -> "9"

\* Display for u8: the decimal digits, no leading zero, "0" for zero.
RECURSIVE Decimal(_)
Decimal(b) ==
  IF b < 10 THEN <<DigitChar(b)>>
  ELSE Append(Decimal(b \div 10), DigitChar(b % 10))

\* Fill "0", align right, minimum width w: pads a shorter string on the
\* left and leaves a longer one whole.
RECURSIVE PadLeft(_, _)
PadLeft(s, w) == IF Len(s) >= w THEN s ELSE PadLeft(<<"0">> \o s, w)

FormatUnpadded(b) == Decimal(b)

\* format!("{:0>3}", b)
FormatByte(b) == PadLeft(Decimal(b), PadWidth)

\* .map(|b| format!(..)).reduce(|a, b| a + &b): Some(the concatenation),
\* None for no bytes at all.
RECURSIVE ConcatFormatted(_)
ConcatFormatted(bytes) ==
  IF bytes = <<>> THEN <<>>
  ELSE FormatByte(Head(bytes)) \o ConcatFormatted(Tail(bytes))

ReduceFormatted(bytes) ==
  IF bytes = <<>> THEN [some |-> FALSE, value |-> <<>>]
  ELSE [some |-> TRUE, value |-> ConcatFormatted(bytes)]

\* slice::chunks(n): consecutive chunks of n items, the last one shorter
\* when the length is no multiple of n; no chunk for an empty slice.
RECURSIVE Chunks(_, _)
Chunks(s, n) ==
  IF s = <<>> THEN <<>>
  ELSE IF Len(s) <= n THEN <<s>>
  ELSE <<SubSeq(s, 1, n)>> \o Chunks(SubSeq(s, n + 1, Len(s)), n)

\* ------------------------------------------------------------ the buffer

\* An assignment in place of the extend: what was there is lost.
ExtendOverwriting(buf, v, n) == IF n = 0 THEN <<>> ELSE <<[v |-> v, n |-> n]>>

\* Vec::extend with n copies of v.
Extend(buf, v, n) ==
  IF n = 0 THEN buf
  ELSE IF buf # <<>> /\ buf[Len(buf)].v = v
       THEN [buf EXCEPT ![Len(buf)].n = @ + n]
       ELSE Append(buf, [v |-> v, n |-> n])

\* Vec::extend with the items of a vector.
RECURSIVE ExtendAll(_, _)
ExtendAll(buf, items) ==
  IF items = <<>> THEN buf
  ELSE ExtendAll(Extend(buf, Head(items), 1), Tail(items))

\* ----------------------------------------------------------- collaborators

Voices == {"A"}

\* Speak::model: the voice's label, None for no voice.
Model(clip) == IF clip.voice = "None" THEN "None" ELSE clip.voice

VoiceNo(model) == IF model = "None" THEN 0 ELSE 1

RECURSIVE Sum(_)
Sum(s) == IF s = <<>> THEN 0 ELSE Head(s) + Sum(Tail(s))

\* Tts::generate(text, model): a deterministic collaborator, one sample a
\* character, its amplitude in -Q..Q fixed by the character and the voice
\* (for no voice, the one voice the collaborator settles on).
TtsGenerate(text, model) ==
  [i \in 1..Len(text) |->
     ((Sum(Utf8(text[i])) + VoiceNo(model)) % (2 * Q + 1)) - Q]

\* Integer division rounding toward zero.
TruncDiv(a, b) == IF a >= 0 THEN a \div b ELSE -((-a) \div b)

\* lowpass_filter(samples, 24_000.0, 8_000.0), one sample: the first-order
\* recurrence y[i] = y[i-1] + alpha * (x[i] - y[i-1]) with y[-1] = 0 and
\* alpha = dt / (rc + dt) = 1 / (1 + 24000 / (2 pi 8000)), taken as 2/3.
LowpassStep(prev, x) == prev + TruncDiv(2 * (x - prev), 3)

\* The filter over a run of n samples of value x: once an output repeats
\* the one before it, every later output of the run does.
RECURSIVE LowpassRun(_, _, _, _)
LowpassRun(out, prev, x, n) ==
  IF n = 0 THEN [out |-> out, prev |-> prev]
  ELSE LET y == LowpassStep(prev, x)
       IN IF y = prev THEN [out |-> Extend(out, y, n), prev |-> y]
          ELSE LowpassRun(Extend(out, y, 1), y, x, n - 1)

RECURSIVE LowpassFrom(_, _, _)
LowpassFrom(buf, out, prev) ==
  IF buf = <<>> THEN out
  ELSE LET r == LowpassRun(out, prev, Head(buf).v, Head(buf).n)
       IN LowpassFrom(Tail(buf), r.out, r.prev)

\* lowpass_filter: in place, the length kept.
LowpassFilter(buf) == LowpassFrom(buf, <<>>, 0)

\* sample as i32: the integer part, rounding toward zero.
CastI32(v) == TruncDiv(v, Q)

\* (spec.sample_rate / output_spec.sample_rate) as usize
DownsamplingFactor == SourceRate \div TargetRate

\* The indices step_by(f) visits without the skip: the multiples of f.
VisitedFromZero(lo, hi, f) == ((hi + f - 1) \div f) - ((lo + f - 1) \div f)

\* How many indices i of lo..hi-1 the iterator skip(f - 1).step_by(f)
\* visits: those with i + 1 a multiple of f.
Visited(lo, hi, f) == (hi \div f) - (lo \div f)

\* The samples written: every visited sample, cast, in order.
RECURSIVE DecimateFrom(_, _, _)
DecimateFrom(buf, pos, out) ==
  IF buf = <<>> THEN out
  ELSE DecimateFrom(Tail(buf), pos + Head(buf).n,
         Extend(out, CastI32(Head(buf).v),
                Visited(pos, pos + Head(buf).n, DownsamplingFactor)))

Decimate(buf) == DecimateFrom(buf, 0, <<>>)

\* A writer kept open from one call to the next: each call's samples follow
\* those of the calls before it.
SaveAudioFileAppending(buf) ==
  LET filtered == LowpassFrom(buf, <<>>, 0)
      before == IF calls = <<>> THEN <<>> ELSE calls[Len(calls)].out
  IN [samples |-> filtered,
      written |-> DecimateFrom(filtered, 0, before)]

\* save_audio_file: the buffer as the filter leaves it, and the samples
\* handed to the writer.
SaveAudioFile(buf) ==
  LET filtered == LowpassFilter(buf)
  IN [samples |-> filtered, written |-> Decimate(filtered)]

\* ------------------------------------------------------------------ clips

\* Pause(d)
PauseClip(d) ==
  [type |-> "Pause", d |-> d, text |-> <<>>, voice |-> "None", encoding |-> "None"]

\* Speak { text, voice, encoding }; "None" is Option::None.
SpeakClip(text, voice, encoding) ==
  [type |-> "Speak", d |-> 0, text |-> text, voice |-> voice, encoding |-> encoding]

Encodings == {"None", "Words", "Ascii", "Phonetic"}

\* The two files' Speak::render differ in the silences alone.
Variants == {"main", "lib"}

\* main.rs: samples.extend([0.0f32; N])
DigitGapSamples == 4000
GroupGapSamples == 10000
SpaceGapSamples == 16000
WordGapSamples == 4000

\* render.rs: Pause(N).render(samples, tts)
DigitPauseTicks == 600
GroupPauseTicks == 400
SpacePauseTicks == 600
WordPauseTicks == 160

PauseSamplesUnscaled(d) == d

\* Pause::render: vec![0.0f32; 24 * (self.0 as usize)]
PauseSamples(d) == SamplesPerTick * d

\* The zero samples Speak::render appends at each of its four places.
GapSamples(v, role) ==
  IF v = "main"
  THEN CASE role = "digit" -> DigitGapSamples
         [] role = "group" -> GroupGapSamples
         [] role = "space" -> SpaceGapSamples
         [] role = "word" -> WordGapSamples
  ELSE CASE role = "digit" -> PauseSamples(DigitPauseTicks)
         [] role = "group" -> PauseSamples(GroupPauseTicks)
         [] role = "space" -> PauseSamples(SpacePauseTicks)
         [] role = "word" -> PauseSamples(WordPauseTicks)

\* What a render does next: a tts.generate call, or zero samples appended.
SayEl(text) == [kind |-> "say", text |-> text, role |-> "tts", n |-> 0]
GapEl(role, n) == [kind |-> "gap", text |-> <<>>, role |-> role, n |-> n]

\* Some(Encoding::Words): one request a word.
WordsElements(text) ==
  LET words == SplitWhitespace(text)
  IN [i \in 1..Len(words) |-> SayEl(words[i])]

\* The inner loop over one chunk: a request and a short pause a digit.
RECURSIVE ChunkElements(_, _)
ChunkElements(v, chunk) ==
  IF chunk = <<>> THEN <<>>
  ELSE <<SayEl(<<Head(chunk)>>), GapEl("digit", GapSamples(v, "digit"))>>
       \o ChunkElements(v, Tail(chunk))

\* The outer loop: each chunk, then the long pause.
RECURSIVE ChunksElements(_, _)
ChunksElements(v, chunks) ==
  IF chunks = <<>> THEN <<>>
  ELSE ChunkElements(v, Head(chunks))
       \o <<GapEl("group", GapSamples(v, "group"))>>
       \o ChunksElements(v, Tail(chunks))

\* Some(Encoding::Ascii), the reduce having given Some(words).
AsciiElements(v, text) ==
  ChunksElements(v, Chunks(ReduceFormatted(AsBytes(text)).value, ChunkSize))

\* The loop over the words of the phonetic rendering.
RECURSIVE PhoneticWordsElements(_, _)
PhoneticWordsElements(v, words) ==
  IF words = <<>> THEN <<>>
  ELSE (IF ToLowercase(Head(words)) = SpaceWord
        THEN <<GapEl("space", GapSamples(v, "space"))>>
        ELSE <<SayEl(Head(words)), GapEl("word", GapSamples(v, "word"))>>)
       \o PhoneticWordsElements(v, Tail(words))

\* Some(Encoding::Phonetic)
PhoneticElements(v, text) ==
  PhoneticWordsElements(v, SplitWhitespace(PhoneticConvert(text)))

\* The .unwrap() of the reduce over no bytes panics.
Panics(clip) ==
  /\ clip.type = "Speak"
  /\ clip.encoding = "Ascii"
  /\ ~ReduceFormatted(AsBytes(clip.text)).some

\* Render::render of a clip, as the requests and silences it goes through.
Elements(v, clip) ==
  IF clip.type = "Pause" THEN <<GapEl("pause", PauseSamples(clip.d))>>
  ELSE CASE clip.encoding = "Words" -> WordsElements(clip.text)
         [] clip.encoding = "Ascii" -> AsciiElements(v, clip.text)
         [] clip.encoding = "Phonetic" -> PhoneticElements(v, clip.text)
         [] clip.encoding = "None" -> <<SayEl(clip.text)>>

\* ------------------------------------------------------------------ inputs

\* Every text of at most n characters.
Texts(n) == UNION {[1..k -> TextChars] : k \in 0..n}

PauseDurations == {100, 200}

SpeakClips(texts) ==
  {SpeakClip(t, vo, e) : t \in texts, vo \in {"None"} \cup Voices, e \in Encodings}

Pauses == {PauseClip(d) : d \in PauseDurations}

\* The clips a script is made of under Spec.
ScriptClips ==
  Pauses \cup SpeakClips({<<>>, <<"A">>, <<"A", " ", "B">>})

\* The clips rendered alone under SpecClip.
AllClips == Pauses \cup SpeakClips(Texts(MaxTextLen))

\* Sample values a caller's buffer holds: silence, full scale, and beyond
\* full scale (no producer is held to the nominal range).
SaveValues == {-3 * Q, 0, Q, 3 * Q}

\* Every buffer of at most n samples.
Buffers(n) ==
  {ExtendAll(<<>>, s) : s \in UNION {[1..k -> SaveValues] : k \in 0..n}}

\* ------------------------------------------------------------------ actions

NoRequestOutstanding == TRUE

\* tts.generate(..).await: the render goes on when the samples are there.
Awaited == pending = <<>>

InitWith(buffers, position) ==
  /\ variant \in Variants
  /\ pc = position
  /\ rendered = <<>>
  /\ todo = <<>>
  /\ samples \in buffers
  /\ requests = <<>>
  /\ pending = <<>>
  /\ events = <<>>
  /\ clipStart = [samples |-> <<>>, requests |-> 0]
  /\ calls = <<>>

\* let mut tts = Tts::new(); let mut samples = vec![];
Init == InitWith({<<>>}, "loop")

\* for clip in clips: the iterator yields a clip and its render begins.
StartClip(choices) ==
  /\ pc = "loop"
  /\ Len(rendered) < MaxClips
  /\ \E clip \in choices :
       /\ rendered' = Append(rendered, clip)
       /\ clipStart' = [samples |-> samples, requests |-> Len(requests)]
       /\ IF Panics(clip)
          THEN pc' = "panicked" /\ todo' = <<>>
          ELSE pc' = "clip" /\ todo' = Elements(variant, clip)
  /\ UNCHANGED <<variant, samples, requests, pending, events, calls>>

\* tts.generate(text, self.model()) is called.
Generate ==
  /\ pc = "clip"
  /\ todo # <<>>
  /\ Head(todo).kind = "say"
  /\ Awaited
  /\ LET req == [clip |-> Len(rendered), text |-> Head(todo).text,
                 model |-> Model(rendered[Len(rendered)])]
     IN /\ requests' = Append(requests, req)
        /\ pending' = Append(pending, req)
  /\ todo' = Tail(todo)
  /\ UNCHANGED <<variant, pc, rendered, samples, events, clipStart, calls>>

\* The request returns: samples.extend(more_samples).
Resume ==
  /\ pending # <<>>
  /\ samples' = ExtendAll(samples, TtsGenerate(Head(pending).text, Head(pending).model))
  /\ pending' = Tail(pending)
  /\ events' = Append(events, [clip |-> Head(pending).clip, kind |-> "tts",
                               text |-> Head(pending).text, role |-> "tts",
                               n |-> Len(Head(pending).text)])
  /\ UNCHANGED <<variant, pc, rendered, todo, requests, clipStart, calls>>

\* Zero samples are appended: a pause of Speak::render, or Pause::render.
Silence ==
  /\ pc = "clip"
  /\ todo # <<>>
  /\ Head(todo).kind = "gap"
  /\ Awaited
  /\ samples' = Extend(samples, 0, Head(todo).n)
  /\ events' = Append(events, [clip |-> Len(rendered), kind |-> "gap",
                               text |-> <<>>, role |-> Head(todo).role,
                               n |-> Head(todo).n])
  /\ todo' = Tail(todo)
  /\ UNCHANGED <<variant, pc, rendered, requests, pending, clipStart, calls>>

\* The clip's render returns.
EndClip ==
  /\ pc = "clip"
  /\ todo = <<>>
  /\ Awaited
  /\ pc' = "loop"
  /\ UNCHANGED <<variant, rendered, todo, samples, requests, pending, events,
                 clipStart, calls>>

\* The iterator is exhausted: render_all returns samples, main's loop ends.
Finish ==
  /\ pc = "loop"
  /\ pc' = "rendered"
  /\ UNCHANGED <<variant, rendered, todo, samples, requests, pending, events,
                 clipStart, calls>>

\* save_audio_file(&mut samples, path): main calls it once the loop has
\* ended; a caller that still holds the buffer can call it again.
Save ==
  /\ pc \in {"rendered", "saved"}
  /\ Len(calls) < MaxSaves
  /\ LET r == SaveAudioFile(samples)
     IN /\ samples' = r.samples
        /\ calls' = Append(calls, [in |-> samples, out |-> r.written])
  /\ pc' = "saved"
  /\ UNCHANGED <<variant, rendered, todo, requests, pending, events, clipStart>>

\* A script of clips rendered and the buffer saved.
Next ==
  \/ StartClip(ScriptClips)
  \/ Generate
  \/ Resume
  \/ Silence
  \/ EndClip
  \/ Finish
  \/ Save

Spec == Init /\ [][Next]_vars

\* One clip, of any text, rendered alone.
NextClip ==
  \/ (Len(rendered) = 0 /\ StartClip(AllClips))
  \/ Generate
  \/ Resume
  \/ Silence
  \/ EndClip
  \/ Finish

SpecClip == Init /\ [][NextClip]_vars

\* save_audio_file called on a buffer a caller holds.
InitSave == InitWith(Buffers(MaxBufLen), "rendered")

NextSave == Save

SpecSave == InitSave /\ [][NextSave]_vars

\* ------------------------------------------------------------------ claims

\* Reading a buffer: its length, a sample, a concatenation, a prefix.

\* Vec::len
RECURSIVE BufLen(_)
BufLen(buf) == IF buf = <<>> THEN 0 ELSE Head(buf).n + BufLen(Tail(buf))

\* buf[i], counting from 0.
RECURSIVE At(_, _)
At(buf, i) == IF i < Head(buf).n THEN Head(buf).v ELSE At(Tail(buf), i - Head(buf).n)

\* a followed by b.
RECURSIVE Concat(_, _)
Concat(a, b) ==
  IF b = <<>> THEN a ELSE Concat(Extend(a, Head(b).v, Head(b).n), Tail(b))

\* The first samples of b are the samples of a, in place.
IsPrefix(a, b) ==
  \/ a = <<>>
  \/ /\ Len(a) <= Len(b)
     /\ SubSeq(b, 1, Len(a) - 1) = SubSeq(a, 1, Len(a) - 1)
     /\ b[Len(a)].v = a[Len(a)].v
     /\ a[Len(a)].n <= b[Len(a)].n

\* The samples one request or silence contributes.
ElementSamples(el, model) ==
  IF el.kind = "say" THEN ExtendAll(<<>>, TtsGenerate(el.text, model))
  ELSE Extend(<<>>, 0, el.n)

RECURSIVE ElementsSamples(_, _)
ElementsSamples(els, model) ==
  IF els = <<>> THEN <<>>
  ELSE Concat(ElementSamples(Head(els), model), ElementsSamples(Tail(els), model))

\* What one clip, rendered on its own, puts into an empty buffer.
Contribution(clip) == ElementsSamples(Elements(variant, clip), Model(clip))

RECURSIVE Contributions(_)
Contributions(clips) ==
  IF clips = <<>> THEN <<>>
  ELSE Concat(Contribution(Head(clips)), Contributions(Tail(clips)))

RECURSIVE ContributionLengths(_)
ContributionLengths(clips) ==
  IF clips = <<>> THEN 0
  ELSE BufLen(Contribution(Head(clips))) + ContributionLengths(Tail(clips))

\* The loop is between two clips, or over, and nothing has been saved yet.
BetweenClips == pc \in {"loop", "rendered"} /\ calls = <<>>

\* C1: while clips are rendered every step leaves the samples already in
\* the buffer unchanged and in place, and between clips (and when render_all
\* returns) the buffer is the in-order concatenation of what each clip
\* rendered so far contributes on its own, its length the sum of theirs.
C1_RenderConcatenates ==
  /\ [](BetweenClips =>
          /\ samples = Contributions(rendered)
          /\ BufLen(samples) = ContributionLengths(rendered))
  /\ [][calls' = <<>> => IsPrefix(samples, samples')]_vars

\* C1 witness: render_all has returned a script of two Speak clips, each
\* of which put samples of its own into the buffer.
C1_Witness ==
  /\ pc = "rendered"
  /\ calls = <<>>
  /\ Len(rendered) = 2
  /\ \A k \in 1..2 :
       /\ rendered[k].type = "Speak"
       /\ Contribution(rendered[k]) # <<>>
  /\ Contribution(rendered[1]) # Contribution(rendered[2])

\* C2: rendering a Speak clip never fails, whatever its text and encoding.
C2_SpeakRenderNeverFails == pc # "panicked"

\* C2 witness: the render of an Ascii clip of empty text has begun.
C2_Witness ==
  /\ Len(rendered) = 1
  /\ rendered[1].encoding = "Ascii"
  /\ rendered[1].text = <<>>

\* 10^e
RECURSIVE Pow10(_)
Pow10(e) == IF e = 0 THEN 1 ELSE 10 * Pow10(e - 1)

\* Digit k (from 1) of the stream of the bytes B: each byte's hundreds,
\* tens and units, in that order.
StreamDigit(B, k) ==
  DigitChar((B[((k - 1) \div 3) + 1] \div Pow10(2 - ((k - 1) % 3))) % 10)

\* Where in the clip's events the request of digit k lies: two events a
\* digit before it, and one more for every group of 5 completed before it.
DigitEvent(k) == 2 * (k - 1) + ((k - 1) \div 5) + 1

\* An Ascii clip of non-empty text has been rendered, alone and whole.
AsciiClipDone ==
  /\ pc = "loop"
  /\ Len(rendered) = 1
  /\ rendered[1].type = "Speak"
  /\ rendered[1].encoding = "Ascii"
  /\ rendered[1].text # <<>>

\* C3: an Ascii clip of the non-empty bytes B issues exactly 3 x len(B)
\* requests, request k carrying digit k of the zero-padded decimal stream;
\* every request is followed by a digit silence, and a group silence follows
\* every fifth digit and the last one, and nothing else is rendered.  "A"
\* gives "0", "6", "5", then one group silence.
C3_AsciiDigitStream ==
  AsciiClipDone =>
    LET B == AsBytes(rendered[1].text)
        m == 3 * Len(B)
    IN /\ Len(requests) = m
       /\ Len(events) = 2 * m + ((m + 4) \div 5)
       /\ \A k \in 1..m :
            /\ requests[k].text = <<StreamDigit(B, k)>>
            /\ events[DigitEvent(k)].kind = "tts"
            /\ events[DigitEvent(k)].text = <<StreamDigit(B, k)>>
            /\ events[DigitEvent(k) + 1].role = "digit"
            /\ (k % 5 = 0 \/ k = m) => events[DigitEvent(k) + 2].role = "group"
       /\ \A i \in 1..Len(events) : events[i].role \in {"tts", "digit", "group"}
       /\ rendered[1].text = <<"A">> =>
            /\ [k \in 1..3 |-> requests[k].text] = <<<<"0">>, <<"6">>, <<"5">>>>
            /\ [i \in 1..Len(events) |-> events[i].role]
                 = <<"tts", "digit", "tts", "digit", "tts", "digit", "group">>

\* C3 witness: an Ascii clip of at least four bytes, so of two full groups
\* and a shorter last one, has been rendered.
C3_Witness ==
  /\ AsciiClipDone
  /\ Len(requests) > 10
  /\ Len(requests) % 5 # 0

\* C4: the silence after a group of digits is longer than the silence after
\* a digit.
C4_GroupSilenceLonger ==
  \A i, j \in 1..Len(events) :
    (events[i].role = "digit" /\ events[j].role = "group") =>
      events[i].n < events[j].n

\* C4 witness: a group silence has been rendered after a digit silence.
C4_Witness ==
  \E i, j \in 1..Len(events) :
    i < j /\ events[i].role = "digit" /\ events[j].role = "group"

\* The word is "space", in whatever case.
IsSpaceWord(w) ==
  /\ Len(w) = 5
  /\ w[1] \in {"s", "S"}
  /\ w[2] \in {"p", "P"}
  /\ w[3] \in {"a", "A"}
  /\ w[4] \in {"c", "C"}
  /\ w[5] \in {"e", "E"}

\* One element a word: a space silence, or a request and a short silence.
RECURSIVE PhoneticRoles(_)
PhoneticRoles(words) ==
  IF words = <<>> THEN <<>>
  ELSE (IF IsSpaceWord(Head(words)) THEN <<"space">> ELSE <<"tts", "word">>)
       \o PhoneticRoles(Tail(words))

NotSpaceWord(w) == ~IsSpaceWord(w)

HasRole(r, e) == e.role = r

Count(r) == Cardinality({i \in 1..Len(events) : HasRole(r, events[i])})

\* A Phonetic clip has been rendered, alone and whole.
PhoneticClipDone ==
  /\ pc = "loop"
  /\ Len(rendered) = 1
  /\ rendered[1].type = "Speak"
  /\ rendered[1].encoding = "Phonetic"

\* C5: a Phonetic clip renders one element for each word of the phonetic
\* expansion of its text, in order: a space silence and no request for a
\* word that is "space" in any case, one request for the word and then one
\* short silence for any other; so requests plus space silences count the
\* words.  "AB" gives two requests, two short silences, no space silence.
C5_PhoneticOneElementPerWord ==
  PhoneticClipDone =>
    LET W == SplitWhitespace(PhoneticConvert(rendered[1].text))
        spoken == SelectSeq(W, NotSpaceWord)
    IN /\ [i \in 1..Len(events) |-> events[i].role] = PhoneticRoles(W)
       /\ [k \in 1..Len(requests) |-> requests[k].text] = spoken
       /\ Len(requests) + Count("space") = Len(W)
       /\ Count("word") = Len(requests)
       /\ rendered[1].text = <<"A", "B">> =>
            /\ Len(requests) = 2
            /\ Count("word") = 2
            /\ Count("space") = 0

\* C5 witness: a Phonetic clip whose text holds a letter and a space has
\* been rendered: a request and a space silence.
C5_Witness ==
  /\ PhoneticClipDone
  /\ Len(requests) >= 1
  /\ Count("space") >= 1

\* A Pause clip has just been rendered.
PauseClipDone ==
  /\ pc = "loop"
  /\ rendered # <<>>
  /\ rendered[Len(rendered)].type = "Pause"

\* The samples of buf from index lo on are all zero.
ZeroFrom(buf, lo) == \A i \in lo..(BufLen(buf) - 1) : At(buf, i) = 0

\* C6: rendering Pause(d) leaves what the buffer held in place, appends
\* exactly 24 x d samples, all zero, and issues no request; the script
\* Pause(100), Pause(200) gives 7,200 samples, all zero.
C6_PauseAppendsZeros ==
  /\ PauseClipDone =>
       LET d == rendered[Len(rendered)].d
       IN /\ BufLen(samples) = BufLen(clipStart.samples) + 24 * d
          /\ IsPrefix(clipStart.samples, samples)
          /\ samples[Len(samples)].v = 0
          /\ samples[Len(samples)].n >= 24 * d
          /\ Len(requests) = clipStart.requests
  /\ (BetweenClips /\ rendered = <<PauseClip(100), PauseClip(200)>>) =>
       /\ BufLen(samples) = 7200
       /\ samples = <<[v |-> 0, n |-> 7200]>>
       /\ requests = <<>>

\* C6 witness: the script Pause(100), Pause(200) has been rendered.
C6_Witness ==
  /\ pc = "rendered"
  /\ calls = <<>>
  /\ rendered = <<PauseClip(100), PauseClip(200)>>

\* C6 witness of the general case: a Pause rendered onto a buffer that
\* already held samples of a Speak clip.
C6_WitnessAfterSpeak ==
  /\ PauseClipDone
  /\ Len(rendered) = 2
  /\ rendered[1].type = "Speak"
  /\ clipStart.samples # <<>>
  /\ clipStart.requests > 0

\* C7: save_audio_file, handed L samples, writes L / 3 of them, rounded
\* down: the final partial group of the buffer is dropped, nothing is
\* written for an empty buffer, and written sample i (from 0) is the sample
\* the filter left at index (i + 1) x 3 - 1, as an integer.
C7_DecimationKeepsEveryThird ==
  \A c \in 1..Len(calls) :
    LET filtered == IF c < Len(calls) THEN calls[c + 1].in ELSE samples
        L == BufLen(calls[c].in)
    IN /\ BufLen(filtered) = L
       /\ BufLen(calls[c].out) = L \div 3
       /\ L % 3 = 0 => 3 * BufLen(calls[c].out) = L
       /\ \A i \in 0..(BufLen(calls[c].out) - 1) :
            At(calls[c].out, i) = CastI32(At(filtered, (i + 1) * 3 - 1))

\* C7 witness: a buffer of 6 samples has been saved as 2 different samples,
\* and so has one of 5 samples, its last 2 dropped.
C7_Witness ==
  /\ calls # <<>>
  /\ BufLen(calls[1].in) = 6
  /\ Len(calls[1].out) = 2

C7_WitnessPartialGroup ==
  /\ calls # <<>>
  /\ BufLen(calls[1].in) = 5
  /\ BufLen(calls[1].out) = 1

\* C8 as stated: a second save_audio_file on the same buffer writes the
\* samples the first one wrote.
C8_SecondSaveWritesSame ==
  Len(calls) >= 2 => calls[2].out = calls[1].out

\* C8 as amended: save_audio_file keeps nothing from one call to the next;
\* what it writes depends on the contents of the buffer it is handed alone,
\* so calls handed the same contents write the same samples.  The buffer a
\* second call on the same Vec is handed is the one the first call filtered
\* in place.
C8_SameContentsSameOutput ==
  /\ \A i, j \in 1..Len(calls) :
       calls[i].in = calls[j].in => calls[i].out = calls[j].out
  /\ \A i \in 1..(Len(calls) - 1) :
       /\ BufLen(calls[i + 1].in) = BufLen(calls[i].in)
       /\ BufLen(calls[i + 1].out) = BufLen(calls[i].out)

\* C8 witness: two calls were handed the same contents (a buffer the
\* filter leaves as it is) and wrote samples.
C8_Witness ==
  /\ Len(calls) = 2
  /\ calls[1].in = calls[2].in
  /\ calls[1].out # <<>>

\* The texts of the requests a clip's render makes, in order; none when
\* the render stops before its first request.
SayTexts(clip) ==
  LET els == IF Panics(clip) THEN <<>> ELSE Elements(variant, clip)
      says == SelectSeq(els, LAMBDA e : e.kind = "say")
  IN [i \in 1..Len(says) |-> says[i].text]

\* The requests issued for clip k, in issue order.
RequestsOf(k) ==
  LET mine == SelectSeq(requests, LAMBDA r : r.clip = k)
  IN [i \in 1..Len(mine) |-> mine[i].text]

\* C9: at most one request is outstanding; a request is issued only when
\* the samples of every earlier request are in the buffer; requests are
\* issued clip after clip in script order, those of one clip in the order
\* of its tokens; and once save_audio_file has been called no clip is
\* rendered and no request issued or outstanding.
C9_OneRequestAtATimeInOrder ==
  /\ [](/\ Len(pending) <= 1
        /\ Count("tts") + Len(pending) = Len(requests)
        /\ \A i, j \in 1..Len(requests) :
             i < j => requests[i].clip <= requests[j].clip
        /\ \A k \in 1..Len(rendered) :
             /\ Len(RequestsOf(k)) <= Len(SayTexts(rendered[k]))
             /\ RequestsOf(k) =
                  SubSeq(SayTexts(rendered[k]), 1, Len(RequestsOf(k)))
             /\ (k < Len(rendered) \/ pc \in {"loop", "rendered", "saved"}) =>
                  RequestsOf(k) = SayTexts(rendered[k])
        /\ calls # <<>> =>
             /\ pc = "saved"
             /\ pending = <<>>
             /\ todo = <<>>)
  /\ [][/\ Len(requests') > Len(requests) =>
             /\ pending = <<>>
             /\ Count("tts") = Len(requests)
             /\ calls = <<>>
        /\ calls # <<>> => (rendered' = rendered /\ events' = events)]_vars

\* C9 witness: a script of two Speak clips, each of at least two requests,
\* has been rendered and saved.
C9_Witness ==
  /\ pc = "saved"
  /\ Len(rendered) = 2
  /\ Len(RequestsOf(1)) >= 2
  /\ Len(RequestsOf(2)) >= 2

\* C10 as stated: no request carries an empty text.
C10_NoEmptyRequest == \A i \in 1..Len(requests) : requests[i].text # <<>>

\* C10 as amended: every request of a Speak clip that has an encoding
\* (Words, Ascii or Phonetic) carries a non-empty text; a clip without
\* encoding issues its text as it is, so its request is empty exactly when
\* its text is.
C10_EncodersEmitNoEmptyToken ==
  \A i \in 1..Len(requests) :
    LET clip == rendered[requests[i].clip]
    IN /\ clip.encoding # "None" => requests[i].text # <<>>
       /\ clip.encoding = "None" => requests[i].text = clip.text

\* C10 witness: a Words clip whose text begins and ends with a space has
\* issued a request.
C10_Witness ==
  /\ Len(rendered) = 1
  /\ rendered[1].encoding = "Words"
  /\ Len(rendered[1].text) = 3
  /\ rendered[1].text[1] = " "
  /\ rendered[1].text[3] = " "
  /\ Len(requests) = 1

====
